---- MODULE Spec2Model ----
(***************************************************************************)
(* A model of play_hangman.py: the letter-frequency predictor (HMMAdapter) *)
(* and the three game loops (play_human_mode, watch_ai_play, ai_battle)    *)
(* driven from the main menu.                                              *)
(*                                                                         *)
(* Characters are their code points (97 is 'a', 45 is '-', 95 is '_'), a   *)
(* string is a sequence of characters, a Python set of one-character       *)
(* strings is a set of characters, and a Counter is a function from the    *)
(* characters it has seen to their counts.                                 *)
(***************************************************************************)
EXTENDS Integers, Sequences, FiniteSets, TLC

VARIABLES
    files,            \* the files main finds: hmm_model.pkl, data/*.txt
    letter_freq,      \* HMMAdapter.letter_freq: the Counter of characters
    words,            \* the word list returned by load_words
    pc,               \* where the program is: menu, a game loop, exit, crashed
    word,             \* the secret word of the current round
    guessed_letters,  \* the set of letters guessed in the current round
    wrong_guesses,    \* the number of misses of the current round
    state,            \* the round: IDLE, IN_PROGRESS, WON, LOST or ERROR
    guess,            \* the last guess read or computed (a string)
    output,           \* the kind of the last message printed
    game_num,         \* the index of the current game of a series
    num_games,        \* the number of games of the series
    wins,             \* watch_ai_play: games won so far
    losses,           \* watch_ai_play: "AI LOST" reports printed so far
    total_wrong,      \* watch_ai_play: misses summed over the finished games
    hmm_wins,         \* ai_battle: games won by the predictor
    random_wins,      \* ai_battle: games won by the random guesser
    alphabet          \* ai_battle: the shuffled alphabet of the random guesser

vars == <<files, letter_freq, words, pc, word, guessed_letters, wrong_guesses,
          state, guess, output, game_num, num_games, wins, losses, total_wrong,
          hmm_wins, random_wins, alphabet>>

----------------------------------------------------------------------------
(* Bounds of the model *)

\* the word list holds the first MaxWords lines of WordFile
MaxWords == 6
\* a corpus holds at most MaxCorpusWords lines of CorpusFile
MaxCorpusWords == 3
\* the human player types the first MaxKeys keys of Keys (and malformed lines)
MaxKeys == 8
\* a series of games is cut to at most MaxGames games
MaxGames == 2
\* random.shuffle yields one of the first MaxShuffles orders of Shuffles
MaxShuffles == 2
\* the predictor is probed with guessed sets grown by its own answers and by
\* any of the first MaxProbe letters of the alphabet
MaxProbe == 3

----------------------------------------------------------------------------
(* Characters and strings *)

Range(s) == {s[i] : i \in DOMAIN s}

Min(a, b) == IF a < b THEN a ELSE b

\* 'abcdefghijklmnopqrstuvwxyz'
Letters == [i \in 1..26 |-> 96 + i]

LetterSet == Range(Letters)

Placeholder == 95

IsSpace(c) == c \in {9, 10, 13, 32}

\* str.isalpha on one character: ASCII letters, and 233 ('e' with an acute
\* accent) standing for the letters outside ASCII
IsAlpha(c) == c \in (65..90) \cup (97..122) \cup {233}

LowerChar(c) == IF c \in 65..90 THEN c + 32 ELSE c

\* str.lower
Lower(s) == [i \in DOMAIN s |-> LowerChar(s[i])]

RECURSIVE StripLeft(_)
StripLeft(s) == IF s # <<>> /\ IsSpace(Head(s)) THEN StripLeft(Tail(s)) ELSE s

RECURSIVE StripRight(_)
StripRight(s) ==
    IF s # <<>> /\ IsSpace(s[Len(s)]) THEN StripRight(SubSeq(s, 1, Len(s) - 1))
    ELSE s

\* str.strip
Strip(s) == StripRight(StripLeft(s))

----------------------------------------------------------------------------
(* The files *)

\* lines of data/test.txt (or data/corpus.txt): "Go", "cat", a blank line,
\* "yo-yo", a pangram sentence, "Python", "hangman", each with its newline
WordFile ==
    << <<71, 111, 10>>,
       <<99, 97, 116, 10>>,
       <<10>>,
       <<121, 111, 45, 121, 111, 10>>,
       <<80, 97, 99, 107, 32, 109, 121, 32, 98, 111, 120, 32, 119, 105, 116,
         104, 32, 102, 105, 118, 101, 32, 100, 111, 122, 101, 110, 32, 108,
         105, 113, 117, 111, 114, 32, 106, 117, 103, 115, 10>>,
       <<80, 121, 116, 104, 111, 110, 10>>,
       <<104, 97, 110, 103, 109, 97, 110, 10>> >>

\* lines of data/corpus.txt: "cat", "car", "can", "X-ray"
CorpusFile ==
    << <<99, 97, 116, 10>>,
       <<99, 97, 114, 10>>,
       <<99, 97, 110, 10>>,
       <<88, 45, 114, 97, 121, 10>> >>

\* [w.strip().lower() for w in f.readlines()]
ReadWords(lines) == [i \in DOMAIN lines |-> Lower(Strip(lines[i]))]

load_words == ReadWords(SubSeq(WordFile, 1, Min(MaxWords, Len(WordFile))))

----------------------------------------------------------------------------
(* The predictor: class HMMAdapter *)

\* the number of positions of word w that hold character c
RECURSIVE Occurrences(_, _)
Occurrences(w, c) ==
    IF w = <<>> THEN 0
    ELSE (IF Head(w) = c THEN 1 ELSE 0) + Occurrences(Tail(w), c)

RECURSIVE SumOver(_, _)
SumOver(f, S) ==
    IF S = {} THEN 0
    ELSE LET x == CHOOSE y \in S : TRUE IN f[x] + SumOver(f, S \ {x})

\* letter_freq = Counter(); for word in corpus: letter_freq.update(list(word))
\* for a corpus given as a set of distinct words
CountLetters(corpus) ==
    LET seen == UNION {Range(w) : w \in corpus}
    IN  [c \in seen |->
            SumOver([w \in corpus |-> Occurrences(w, c)], corpus)]

\* self.letter_freq.get(l, 0)
Get(lf, l) == IF l \in DOMAIN lf THEN lf[l] ELSE 0

\* float(sum(self.letter_freq.values()) or 1.0)
Total(lf) ==
    LET s == SumOver(lf, DOMAIN lf) IN IF s = 0 THEN 1 ELSE s

\* ProbLess with the comparison turned round
ProbLess_Reversed(p, q) == p.num * q.den > q.num * p.den

\* a probability is the fraction num/den, den > 0
ProbLess(p, q) == p.num * q.den < q.num * p.den

\* the dict probs: the 26 letters, then the guessed keys set to 0.0
predict_letter_probabilities(lf, masked_word, guessed) ==
    [l \in LetterSet \cup guessed |->
        IF l \in guessed THEN [num |-> 0, den |-> 1]
        ELSE [num |-> Get(lf, l), den |-> Total(lf)]]

\* random.choice(seq): the values it can return; none when seq is empty,
\* where it raises IndexError
RandomChoice(seq) == Range(seq)

\* [c for c in seq if c not in guessed]
RECURSIVE Unguessed(_, _)
Unguessed(seq, guessed) ==
    IF seq = <<>> THEN <<>>
    ELSE IF Head(seq) \in guessed THEN Unguessed(Tail(seq), guessed)
    ELSE <<Head(seq)>> \o Unguessed(Tail(seq), guessed)

\* MaxKey that keeps the last of the maximal keys (a max taken with >=)
MaxKey_Last(probs, valid) ==
    {l \in valid :
        /\ \A m \in valid : ~ProbLess(probs[l], probs[m])
        /\ \A m \in valid : m > l => ProbLess(probs[m], probs[l])}

\* max(valid.items(), key=lambda x: x[1])[0]: the first key, in the dict's
\* order (a..z), whose value no other key's value exceeds
MaxKey(probs, valid) ==
    {l \in valid :
        /\ \A m \in valid : ~ProbLess(probs[l], probs[m])
        /\ \A m \in valid : m < l => ProbLess(probs[m], probs[l])}

\* get_best_guess without the filter on the guessed letters
get_best_guess_NoFilter(lf, masked_word, guessed) ==
    LET probs == predict_letter_probabilities(lf, masked_word, guessed)
    IN  MaxKey(probs, DOMAIN probs)

\* the letters get_best_guess can return; none when it raises IndexError
get_best_guess(lf, masked_word, guessed) ==
    LET probs == predict_letter_probabilities(lf, masked_word, guessed)
        valid == {l \in DOMAIN probs : l \notin guessed}
    IN  IF valid = {} THEN RandomChoice(Unguessed(Letters, guessed))
        ELSE MaxKey(probs, valid)

\* the tables the predictor is built from: the counts of a corpus of at most
\* MaxCorpusWords lines of CorpusFile
Corpora ==
    {ReadCorpus \in SUBSET Range(ReadWords(CorpusFile)) :
        Cardinality(ReadCorpus) <= MaxCorpusWords}

Tables == {CountLetters(c) : c \in Corpora}

\* the tables the games are played with: the counts of the first n lines of
\* CorpusFile, n <= MaxCorpusWords
GameTables ==
    {CountLetters(Range(SubSeq(ReadWords(CorpusFile), 1, n))) :
        n \in 0..Min(MaxCorpusWords, Len(CorpusFile))}

----------------------------------------------------------------------------
(* The round *)

max_wrong == 6

\* Masked with the test on the word instead of the guessed letters
Masked_TestsWord(w, guessed) ==
    [i \in DOMAIN w |-> IF w[i] \in Range(w) THEN w[i] ELSE Placeholder]

\* ''.join([c if c in guessed_letters else '_' for c in word])
Masked(w, guessed) ==
    [i \in DOMAIN w |-> IF w[i] \in guessed THEN w[i] ELSE Placeholder]

\* '_' in masked
HasPlaceholder(masked) == \E i \in DOMAIN masked : masked[i] = Placeholder

\* RoundState with the loop running while wrong <= max_wrong
RoundState_LateLoss(w, guessed, wrong) ==
    IF ~(wrong <= max_wrong) THEN "LOST"
    ELSE IF ~HasPlaceholder(Masked(w, guessed)) THEN "WON"
    ELSE "IN_PROGRESS"

\* the head of the game loop: while wrong < max_wrong, then the win test
RoundState(w, guessed, wrong) ==
    IF ~(wrong < max_wrong) THEN "LOST"
    ELSE IF ~HasPlaceholder(Masked(w, guessed)) THEN "WON"
    ELSE "IN_PROGRESS"

\* Miss counting every guess as a miss
Miss_Always(w, g, wrong) == wrong + 1

\* the miss counter after guess g (one character) has been added
Miss(w, g, wrong) == IF g \in Range(w) THEN wrong ELSE wrong + 1

----------------------------------------------------------------------------
(* The state after main has loaded the model and the word list *)

\* the files of a run whose model file holds the table lf
Installed(lf) ==
    [pkl |-> "letter_freq", pkl_freq |-> lf, corpus |-> TRUE,
     corpus_lines |-> Min(MaxCorpusWords, Len(CorpusFile)), test |-> TRUE]

Init ==
    /\ letter_freq \in GameTables
    /\ files = Installed(letter_freq)
    /\ words = load_words
    /\ pc = "menu"
    /\ word = <<>>
    /\ guessed_letters = {}
    /\ wrong_guesses = 0
    /\ state = "IDLE"
    /\ guess = <<>>
    /\ output = "menu"
    /\ game_num = 0
    /\ num_games = 0
    /\ wins = 0
    /\ losses = 0
    /\ total_wrong = 0
    /\ hmm_wins = 0
    /\ random_wins = 0
    /\ alphabet = Letters

series ==
    <<game_num, num_games, wins, losses, total_wrong, hmm_wins, random_wins>>

round == <<word, guessed_letters, wrong_guesses, state>>

loaded == <<files, letter_freq, words>>

----------------------------------------------------------------------------
(* play_human_mode *)

\* the keys the player may type, one per line: g o x y z q w e c a
Keys == <<103, 111, 120, 121, 122, 113, 119, 101, 99, 97>>

\* the lines the player may enter: a key, or "", "ab", "1", " G "
InputLines ==
    {<<Keys[i]>> : i \in 1..Min(MaxKeys, Len(Keys))}
        \cup {<<>>, <<97, 98>>, <<49>>, <<32, 71, 32>>}

\* input("\nGuess a letter: ").lower().strip()
ReadGuess(line) == Strip(Lower(line))

\* NotSingleLetter without the isalpha test
NotSingleLetter_LenOnly(g) == Len(g) # 1

\* len(guess) != 1 or not guess.isalpha()
NotSingleLetter(g) == Len(g) # 1 \/ ~IsAlpha(g[1])

\* guess in guessed_letters
AlreadyGuessed(g, guessed) == g[1] \in guessed

\* AddGuess that keeps the new letter only
AddGuess_Replaces(guessed, c) == {c}

\* guessed_letters.add(guess)
AddGuess(guessed, c) == guessed \cup {c}

\* word = random.choice(words), fresh round, and the first pass of the loop
\* head
HumanStart ==
    /\ pc = "menu"
    /\ \E i \in DOMAIN words :
        /\ word' = words[i]
        /\ guessed_letters' = {}
        /\ wrong_guesses' = 0
        /\ state' = RoundState(words[i], {}, 0)
    /\ pc' = IF state' = "IN_PROGRESS" THEN "human" ELSE "menu"
    /\ output' = IF state' = "WON" THEN "you_win" ELSE "prompt"
    /\ guess' = <<>>
    /\ UNCHANGED <<loaded, series, alphabet>>

\* one line read at the prompt, up to the next prompt or the end of the round
HumanGuess(line) ==
    /\ pc = "human"
    /\ guess' = ReadGuess(line)
    /\ IF NotSingleLetter(guess')
       THEN /\ output' = "single_letter"
            /\ UNCHANGED <<round, pc>>
       ELSE IF AlreadyGuessed(guess', guessed_letters)
       THEN /\ output' = "already"
            /\ UNCHANGED <<round, pc>>
       ELSE /\ guessed_letters' = AddGuess(guessed_letters, guess'[1])
            /\ wrong_guesses' = Miss(word, guess'[1], wrong_guesses)
            /\ state' = RoundState(word, guessed_letters', wrong_guesses')
            /\ pc' = IF state' = "IN_PROGRESS" THEN "human" ELSE "menu"
            /\ output' = CASE state' = "WON" -> "you_win"
                           [] state' = "LOST" -> "game_over"
                           [] OTHER -> IF wrong_guesses' = wrong_guesses
                                       THEN "good" ELSE "sorry"
            /\ UNCHANGED word
    /\ UNCHANGED <<loaded, series, alphabet>>

----------------------------------------------------------------------------
(* watch_ai_play *)

\* the games a series plays: num_games, cut to MaxGames
Games(n) == Min(n, MaxGames)

\* menu choices 2, 3 and 5: num_games is 5, 20 or 1
WatchStart(n) ==
    /\ pc = "menu"
    /\ num_games' = Games(n)
    /\ game_num' = 0
    /\ wins' = 0
    /\ losses' = 0
    /\ total_wrong' = 0
    /\ pc' = "watch_for"
    /\ output' = "ai_playing"
    /\ UNCHANGED <<loaded, round, guess, hmm_wins, random_wins, alphabet>>

\* WatchFinish with the loss reported after every game
WatchFinish_AlwaysLost(st, wrong) ==
    /\ wins' = IF st = "WON" THEN wins + 1 ELSE wins
    /\ losses' = losses + 1
    /\ output' = "ai_lost"
    /\ total_wrong' = total_wrong + wrong
    /\ game_num' = game_num + 1
    /\ pc' = "watch_for"

\* the end of one game: the win counter, the loss report, total_wrong
WatchFinish(st, wrong) ==
    /\ wins' = IF st = "WON" THEN wins + 1 ELSE wins
    /\ losses' = IF st # "WON" /\ wrong >= max_wrong THEN losses + 1
                 ELSE losses
    /\ output' = IF st = "WON" THEN "ai_win"
                 ELSE IF wrong >= max_wrong THEN "ai_lost" ELSE "none"
    /\ total_wrong' = total_wrong + wrong
    /\ game_num' = game_num + 1
    /\ pc' = "watch_for"

\* WatchNewGame without the two resets: the round goes on from what the
\* previous game left
WatchNewGame_KeepsRound ==
    /\ pc = "watch_for"
    /\ game_num < num_games
    /\ \E i \in DOMAIN words :
        /\ word' = words[i]
        /\ UNCHANGED <<guessed_letters, wrong_guesses>>
        /\ state' = RoundState(words[i], guessed_letters, wrong_guesses)
    /\ IF state' = "IN_PROGRESS"
       THEN /\ pc' = "watch_while"
            /\ output' = "game"
            /\ UNCHANGED <<wins, losses, total_wrong, game_num>>
       ELSE WatchFinish(state', wrong_guesses')
    /\ guess' = <<>>
    /\ UNCHANGED <<loaded, num_games, hmm_wins, random_wins, alphabet>>

\* the head of the for loop: a new word, a fresh round, and the first pass of
\* the while loop's head
WatchNewGame ==
    /\ pc = "watch_for"
    /\ game_num < num_games
    /\ \E i \in DOMAIN words :
        /\ word' = words[i]
        /\ guessed_letters' = {}
        /\ wrong_guesses' = 0
        /\ state' = RoundState(words[i], {}, 0)
    /\ IF state' = "IN_PROGRESS"
       THEN /\ pc' = "watch_while"
            /\ output' = "game"
            /\ UNCHANGED <<wins, losses, total_wrong, game_num>>
       ELSE WatchFinish(state', wrong_guesses')
    /\ guess' = <<>>
    /\ UNCHANGED <<loaded, num_games, hmm_wins, random_wins, alphabet>>

\* one pass of the while loop from the predictor's guess to the next head
WatchGuess ==
    /\ pc = "watch_while"
    /\ LET best == get_best_guess(letter_freq,
                                  Masked(word, guessed_letters),
                                  guessed_letters)
       IN  IF best = {}
           THEN /\ pc' = "crashed"
                /\ state' = "ERROR"
                /\ output' = "IndexError"
                /\ UNCHANGED <<word, guessed_letters, wrong_guesses, guess,
                               wins, losses, total_wrong, game_num>>
           ELSE \E g \in best :
                /\ guess' = <<g>>
                /\ guessed_letters' = AddGuess(guessed_letters, g)
                /\ wrong_guesses' = Miss(word, g, wrong_guesses)
                /\ state' = RoundState(word, guessed_letters', wrong_guesses')
                /\ IF state' = "IN_PROGRESS"
                   THEN /\ pc' = "watch_while"
                        /\ output' = IF wrong_guesses' = wrong_guesses
                                     THEN "ai_right" ELSE "ai_wrong"
                        /\ UNCHANGED <<wins, losses, total_wrong, game_num>>
                   ELSE WatchFinish(state', wrong_guesses')
                /\ UNCHANGED word
    /\ UNCHANGED <<loaded, num_games, hmm_wins, random_wins, alphabet>>

\* the summary, and the return to the menu
WatchEnd ==
    /\ pc = "watch_for"
    /\ game_num = num_games
    /\ pc' = "menu"
    /\ output' = "summary"
    /\ game_num' = 0
    /\ num_games' = 0
    /\ wins' = 0
    /\ losses' = 0
    /\ total_wrong' = 0
    /\ UNCHANGED <<loaded, round, guess, hmm_wins, random_wins, alphabet>>

----------------------------------------------------------------------------
(* ai_battle *)

\* the orders random.shuffle(alphabet) may leave: the k-th steps through the
\* alphabet 2k+1 letters at a time
Shuffle(k) == [i \in 1..26 |-> Letters[((i * (2 * k + 1)) % 26) + 1]]

Shuffles == {Shuffle(k) : k \in 1..MaxShuffles}

\* FirstUnguessed taking the last unguessed letter of the order
FirstUnguessed_Last(order, guessed) ==
    LET rest == Unguessed(order, guessed)
    IN  IF rest = <<>> THEN {} ELSE {rest[Len(rest)]}

\* [c for c in alphabet if c not in guessed][0]: the letters it can yield;
\* none when the list is empty, where it raises IndexError
FirstUnguessed(order, guessed) ==
    LET rest == Unguessed(order, guessed)
    IN  IF rest = <<>> THEN {} ELSE {rest[1]}

\* menu choice 4: num_games = 20
BattleStart ==
    /\ pc = "menu"
    /\ num_games' = Games(20)
    /\ game_num' = 0
    /\ hmm_wins' = 0
    /\ random_wins' = 0
    /\ pc' = "battle_for"
    /\ output' = "ai_vs_random"
    /\ UNCHANGED <<loaded, round, guess, wins, losses, total_wrong, alphabet>>

\* the head of the for loop: a new word, the predictor's fresh round, and the
\* first pass of its while loop's head
BattleNewGame ==
    /\ pc = "battle_for"
    /\ game_num < num_games
    /\ \E i \in DOMAIN words :
        /\ word' = words[i]
        /\ guessed_letters' = {}
        /\ wrong_guesses' = 0
        /\ state' = RoundState(words[i], {}, 0)
    /\ hmm_wins' = IF state' = "WON" THEN hmm_wins + 1 ELSE hmm_wins
    /\ pc' = IF state' = "IN_PROGRESS" THEN "battle_hmm" ELSE "battle_shuffle"
    /\ guess' = <<>>
    /\ UNCHANGED <<loaded, output, game_num, num_games, wins, losses, total_wrong,
                   random_wins, alphabet>>

\* one pass of the predictor's while loop
BattleHmmGuess ==
    /\ pc = "battle_hmm"
    /\ LET best == get_best_guess(letter_freq,
                                  Masked(word, guessed_letters),
                                  guessed_letters)
       IN  IF best = {}
           THEN /\ pc' = "crashed"
                /\ state' = "ERROR"
                /\ output' = "IndexError"
                /\ UNCHANGED <<word, guessed_letters, wrong_guesses, guess,
                               hmm_wins>>
           ELSE \E g \in best :
                /\ guess' = <<g>>
                /\ guessed_letters' = AddGuess(guessed_letters, g)
                /\ wrong_guesses' = Miss(word, g, wrong_guesses)
                /\ state' = RoundState(word, guessed_letters', wrong_guesses')
                /\ hmm_wins' = IF state' = "WON" THEN hmm_wins + 1
                               ELSE hmm_wins
                /\ pc' = IF state' = "IN_PROGRESS" THEN "battle_hmm"
                         ELSE "battle_shuffle"
                /\ UNCHANGED <<word, output>>
    /\ UNCHANGED <<loaded, game_num, num_games, wins, losses, total_wrong,
                   random_wins, alphabet>>

\* the end of the random guesser's game, and of the iteration
BattleFinish(st) ==
    /\ random_wins' = IF st = "WON" THEN random_wins + 1 ELSE random_wins
    /\ game_num' = game_num + 1
    /\ pc' = "battle_for"

\* BattleShuffle with a word of its own: word = random.choice(words) again
BattleShuffle_Resamples ==
    /\ pc = "battle_shuffle"
    /\ guessed_letters' = {}
    /\ wrong_guesses' = 0
    /\ alphabet' \in Shuffles
    /\ word' \in Range(words)
    /\ state' = RoundState(word', {}, 0)
    /\ IF state' = "IN_PROGRESS"
       THEN /\ pc' = "battle_random"
            /\ UNCHANGED <<random_wins, game_num>>
       ELSE BattleFinish(state')
    /\ guess' = <<>>
    /\ UNCHANGED <<loaded, output, num_games, wins, losses, total_wrong,
                   hmm_wins>>

\* the random guesser's fresh round on the same word, the shuffle, and the
\* first pass of its while loop's head
BattleShuffle ==
    /\ pc = "battle_shuffle"
    /\ guessed_letters' = {}
    /\ wrong_guesses' = 0
    /\ alphabet' \in Shuffles
    /\ state' = RoundState(word, {}, 0)
    /\ IF state' = "IN_PROGRESS"
       THEN /\ pc' = "battle_random"
            /\ UNCHANGED <<random_wins, game_num>>
       ELSE BattleFinish(state')
    /\ guess' = <<>>
    /\ UNCHANGED <<loaded, word, output, num_games, wins, losses, total_wrong,
                   hmm_wins>>

\* one pass of the random guesser's while loop
BattleRandomGuess ==
    /\ pc = "battle_random"
    /\ LET first == FirstUnguessed(alphabet, guessed_letters)
       IN  IF first = {}
           THEN /\ pc' = "crashed"
                /\ state' = "ERROR"
                /\ output' = "IndexError"
                /\ UNCHANGED <<word, guessed_letters, wrong_guesses, guess,
                               random_wins, game_num>>
           ELSE \E g \in first :
                /\ guess' = <<g>>
                /\ guessed_letters' = AddGuess(guessed_letters, g)
                /\ wrong_guesses' = Miss(word, g, wrong_guesses)
                /\ state' = RoundState(word, guessed_letters', wrong_guesses')
                /\ IF state' = "IN_PROGRESS"
                   THEN /\ pc' = "battle_random"
                        /\ UNCHANGED <<random_wins, game_num>>
                   ELSE BattleFinish(state')
                /\ UNCHANGED <<word, output>>
    /\ UNCHANGED <<loaded, num_games, wins, losses, total_wrong, hmm_wins, alphabet>>

\* the results, and the return to the menu
BattleEnd ==
    /\ pc = "battle_for"
    /\ game_num = num_games
    /\ pc' = "menu"
    /\ output' = "results"
    /\ game_num' = 0
    /\ num_games' = 0
    /\ hmm_wins' = 0
    /\ random_wins' = 0
    /\ alphabet' = Letters
    /\ UNCHANGED <<loaded, round, guess, wins, losses, total_wrong>>

----------------------------------------------------------------------------
(* main: the menu *)

\* choice 6
MenuExit ==
    /\ pc = "menu"
    /\ pc' = "exit"
    /\ output' = "thanks"
    /\ UNCHANGED <<loaded, round, guess, series, alphabet>>

\* any other line
MenuInvalid ==
    /\ pc = "menu"
    /\ output' = "invalid_choice"
    /\ UNCHANGED <<loaded, round, guess, series, alphabet, pc>>

Next ==
    \/ HumanStart
    \/ \E line \in InputLines : HumanGuess(line)
    \/ \E n \in {5, 20, 1} : WatchStart(n)
    \/ WatchNewGame
    \/ WatchGuess
    \/ WatchEnd
    \/ BattleStart
    \/ BattleNewGame
    \/ BattleHmmGuess
    \/ BattleShuffle
    \/ BattleRandomGuess
    \/ BattleEnd
    \/ MenuExit
    \/ MenuInvalid

Spec == Init /\ [][Next]_vars

----------------------------------------------------------------------------
(* The predictor on its own: get_best_guess called with guessed sets that   *)
(* grow by its own answers and by letters of the caller's choice            *)

\* a c t z, the letters a caller adds on its own
ProbeLetters == <<97, 99, 116, 122>>

InitPredictor ==
    /\ letter_freq \in Tables
    /\ files = Installed(letter_freq)
    /\ words = load_words
    /\ pc = "predictor"
    /\ word = <<>>
    /\ guessed_letters = {}
    /\ wrong_guesses = 0
    /\ state = "IDLE"
    /\ guess = <<>>
    /\ output = "none"
    /\ game_num = 0
    /\ num_games = 0
    /\ wins = 0
    /\ losses = 0
    /\ total_wrong = 0
    /\ hmm_wins = 0
    /\ random_wins = 0
    /\ alphabet = Letters

\* PredictorCall with a side effect: the call adds its result to the
\* caller's set
PredictorCall_AddsGuess ==
    /\ pc = "predictor"
    /\ LET best == get_best_guess(letter_freq,
                                  Masked(word, guessed_letters),
                                  guessed_letters)
       IN  IF best = {}
           THEN /\ pc' = "crashed"
                /\ state' = "ERROR"
                /\ output' = "IndexError"
                /\ UNCHANGED <<guess, guessed_letters>>
           ELSE /\ guess' \in {<<g>> : g \in best}
                /\ guessed_letters' = AddGuess(guessed_letters, guess'[1])
                /\ pc' = "predicted"
                /\ UNCHANGED <<state, output>>
    /\ UNCHANGED <<loaded, word, wrong_guesses, series, alphabet>>

\* guess = hmm.get_best_guess(masked, guessed_letters)
PredictorCall ==
    /\ pc = "predictor"
    /\ LET best == get_best_guess(letter_freq,
                                  Masked(word, guessed_letters),
                                  guessed_letters)
       IN  IF best = {}
           THEN /\ pc' = "crashed"
                /\ state' = "ERROR"
                /\ output' = "IndexError"
                /\ UNCHANGED guess
           ELSE /\ guess' \in {<<g>> : g \in best}
                /\ pc' = "predicted"
                /\ UNCHANGED <<state, output>>
    /\ UNCHANGED <<loaded, word, guessed_letters, wrong_guesses, series,
                   alphabet>>

\* guessed_letters.add(guess)
PredictorTake ==
    /\ pc = "predicted"
    /\ guessed_letters' = AddGuess(guessed_letters, guess[1])
    /\ pc' = "predictor"
    /\ UNCHANGED <<loaded, word, wrong_guesses, state, guess, output, series,
                   alphabet>>

\* the caller adds a letter of its own
PredictorAdd(c) ==
    /\ pc = "predictor"
    /\ c \notin guessed_letters
    /\ guessed_letters' = AddGuess(guessed_letters, c)
    /\ UNCHANGED <<loaded, pc, word, wrong_guesses, state, guess, output,
                   series, alphabet>>

NextPredictor ==
    \/ PredictorCall
    \/ PredictorTake
    \/ \E i \in 1..Min(MaxProbe, Len(ProbeLetters)) :
           PredictorAdd(ProbeLetters[i])

SpecPredictor == InitPredictor /\ [][NextPredictor]_vars

----------------------------------------------------------------------------
(* Properties of the rounds *)

\* a round exists: one has been started and has not crashed
InRound == state \in {"IN_PROGRESS", "WON", "LOST"}

\* the distinct letters of word w
LettersOf(w) == {c \in Range(w) : IsAlpha(c)}

\* C1: in every round, once the letters guessed are exactly the distinct
\* letters of the secret word, the round is WON and no guess was a miss.
C1_LettersOfWordWin ==
    (InRound /\ guessed_letters = LettersOf(word))
        => (state = "WON" /\ wrong_guesses = 0)

\* C1, for the secret words made of letters only: the same statement holds
C1_LetterWordsWin ==
    (InRound /\ LettersOf(word) = Range(word)
             /\ guessed_letters = LettersOf(word))
        => (state = "WON" /\ wrong_guesses = 0)

C1_LetterWordsWin_Witness ==
    /\ pc = "menu"
    /\ word = <<103, 111>>
    /\ guessed_letters = {103, 111}
    /\ state = "WON"
    /\ output = "you_win"

\* C2: in every round whose guesses all miss the secret word, the misses
\* are counted one per guess, the round is LOST once 6 letters are guessed
\* and not before, and a LOST round takes no further guess: its letters and
\* its miss count stay as they are until a new round starts afresh.
C2_SixMissesLose ==
    /\ [](InRound /\ guessed_letters \cap Range(word) = {}
            => /\ wrong_guesses = Cardinality(guessed_letters)
               /\ Cardinality(guessed_letters) <= 6
               /\ (Cardinality(guessed_letters) = 6 <=> state = "LOST"))
    /\ [][state = "LOST"
            => \/ UNCHANGED <<word, guessed_letters, wrong_guesses, state>>
               \/ /\ guessed_letters' = {}
                  /\ wrong_guesses' = 0
                  /\ state' \in {"IN_PROGRESS", "WON"}]_vars

C2_SixMissesLose_Witness ==
    /\ word = <<103, 111>>
    /\ guessed_letters = {120, 121, 122, 113, 119, 101}
    /\ wrong_guesses = 6
    /\ state = "LOST"
    /\ output = "invalid_choice"

\* what the claim calls a rejected input: after lower() and strip() it is
\* empty, longer than one character, not alphabetic, or already guessed
C3_Rejected(g, guessed) ==
    \/ Len(g) = 0
    \/ Len(g) > 1
    \/ \E i \in DOMAIN g : g[i] \notin (65..90) \cup (97..122) \cup {233}
    \/ \E i \in DOMAIN g : g[i] \in guessed

\* C3: in human mode a rejected input changes neither the word, the guessed
\* letters, the miss count nor the state of the round, a message tells the
\* player, and the program is at the prompt of the same turn again.
C3_RejectedInputKeepsRound ==
    [][(pc = "human" /\ guess' \in {ReadGuess(l) : l \in InputLines}
                     /\ C3_Rejected(guess', guessed_letters))
        => /\ UNCHANGED <<word, guessed_letters, wrong_guesses, state>>
           /\ state' = "IN_PROGRESS"
           /\ pc' = "human"
           /\ output' \in {"single_letter", "already"}]_vars

C3_RejectedInputKeepsRound_Witness ==
    /\ pc = "human"
    /\ output = "already"
    /\ guess = <<103>>
    /\ guessed_letters = {103, 120}
    /\ wrong_guesses = 1

\* C4: in every mode a round is WON exactly when its reveal holds no
\* placeholder, which is when every character of the secret word has been
\* guessed, and it is LOST exactly when the miss count is 6.
C4_WonAndLostExactly ==
    InRound =>
        /\ (state = "WON" <=> ~HasPlaceholder(Masked(word, guessed_letters)))
        /\ (state = "WON" <=> \A i \in DOMAIN word : word[i] \in guessed_letters)
        /\ (state = "LOST" <=> wrong_guesses = 6)

C4_WonAndLostExactly_Witness ==
    /\ pc = "battle_for"
    /\ state = "LOST"
    /\ wrong_guesses = 6
    /\ hmm_wins = 1
    /\ game_num = 2

----------------------------------------------------------------------------
(* Properties of the predictor *)

\* the counts of the corpus cat, car, can: a=3 c=3 t=1 r=1 n=1
CatCarCan ==
    CountLetters({<<99, 97, 116>>, <<99, 97, 114>>, <<99, 97, 110>>})

\* C5: whenever get_best_guess returns, for a guessed set of 0 to 25 of the
\* 26 letters, what it returns is one of the 26 letters and is not in the
\* guessed set.
C5_BestGuessIsUnguessed ==
    (pc = "predicted" /\ guessed_letters \subseteq LetterSet
                      /\ Cardinality(guessed_letters) <= 25)
        => /\ Len(guess) = 1
           /\ guess[1] \in 97..122
           /\ guess[1] \notin guessed_letters

C5_BestGuessIsUnguessed_Witness ==
    /\ pc = "predicted"
    /\ Cardinality(guessed_letters) = 25
    /\ guess = <<122>>
    /\ letter_freq = CatCarCan

\* C6: whenever get_best_guess returns, no unguessed letter has a count
\* strictly above that of the letter returned; for the corpus cat, car, can
\* and no guess made, the letter returned is 'a' or 'c'.
C6_BestGuessIsMaximal ==
    pc = "predicted"
        => /\ \A l \in (97..122) \ guessed_letters :
                Get(letter_freq, l) <= Get(letter_freq, guess[1])
           /\ (letter_freq = CatCarCan /\ guessed_letters = {})
                => guess[1] \in {97, 99}

C6_BestGuessIsMaximal_Witness ==
    /\ pc = "predicted"
    /\ letter_freq = CatCarCan
    /\ guessed_letters = {97}
    /\ guess = <<99>>

\* C9: with all 26 letters guessed, a call of get_best_guess completes by
\* returning a letter: the program does not stop with an error.
C9_ExhaustedAlphabetReturns ==
    (LetterSet \subseteq guessed_letters) => pc # "crashed"

----------------------------------------------------------------------------
(* Properties of the automated rounds *)

\* the predictor is about to be called: the program is in the while loop of
\* watch_ai_play or of the predictor's game of ai_battle
PredictorPlays == pc \in {"watch_while", "battle_hmm"}

\* C7: a predictor-driven round ends WON or LOST, within 26 guesses: it is
\* never ended by an error, and while it is in progress fewer than 26
\* letters have been guessed.
C7_AutomatedRoundEnds ==
    /\ state # "ERROR"
    /\ PredictorPlays => Cardinality(guessed_letters) < 26

\* C7, for the secret words made of letters only: the same statement holds
C7_LetterWordsEnd ==
    Range(word) \subseteq LetterSet
        => /\ state # "ERROR"
           /\ PredictorPlays => Cardinality(guessed_letters) < 26

\* C10: in an automated round get_best_guess is never called with all 26
\* letters guessed.
C10_NeverCalledExhausted ==
    PredictorPlays => ~(LetterSet \subseteq guessed_letters)

\* the steps that guess a letter within a round
GuessStep == pc \in {"human", "watch_while", "battle_hmm", "battle_random"}

\* C8: a step of a round that takes a guess keeps the secret word, removes
\* no guessed letter and adds at most one, and leaves the miss count as it
\* is or raises it by one, by one exactly when the letter added is not in
\* the secret word; the miss count is never negative and max_wrong is 6.
C8_RoundGrowsMonotonically ==
    /\ [](wrong_guesses >= 0 /\ max_wrong = 6)
    /\ [][GuessStep
            => /\ word' = word
               /\ guessed_letters \subseteq guessed_letters'
               /\ Cardinality(guessed_letters' \ guessed_letters) <= 1
               /\ wrong_guesses' \in {wrong_guesses, wrong_guesses + 1}
               /\ (wrong_guesses' = wrong_guesses + 1
                     <=> \E c \in guessed_letters' \ guessed_letters :
                            c \notin Range(word))]_vars

C8_RoundGrowsMonotonically_Witness ==
    /\ pc = "battle_random"
    /\ wrong_guesses = 3
    /\ Cardinality(guessed_letters) = 4
    /\ word = <<103, 111>>

----------------------------------------------------------------------------
(* More properties of the predictor *)

\* the table has zero total letter occurrences
ZeroTotal(lf) == SumOver(lf, DOMAIN lf) = 0

----------------------------------------------------------------------------
(* Properties of ai_battle *)

\* C12, as claimed: when the random guesser's game of an iteration starts,
\* it can start on a word other than the word of the predictor's game.
C12_IndependentWords ==
    (pc = "battle_shuffle" /\ \E i \in DOMAIN words : words[i] # word)
        => ENABLED (BattleShuffle /\ word' # word)

\* C12, amended: the word of an iteration is drawn once, at the head of the
\* for loop; the predictor's game and the random guesser's game of the
\* iteration are played against that same word.
C12_SameWordForBothGames ==
    [][(pc \in {"battle_hmm", "battle_shuffle", "battle_random"})
        => (word' = word)]_vars

C12_SameWordForBothGames_Witness ==
    /\ pc = "battle_random"
    /\ game_num = 0
    /\ hmm_wins = 1
    /\ word = <<99, 97, 116>>
    /\ Cardinality(guessed_letters) = 2

----------------------------------------------------------------------------
(* The start of main: load_hmm, then load_words *)

\* ['python', 'hangman', 'machine', 'learning', 'algorithm']
DefaultWords ==
    << <<112, 121, 116, 104, 111, 110>>,
       <<104, 97, 110, 103, 109, 97, 110>>,
       <<109, 97, 99, 104, 105, 110, 101>>,
       <<108, 101, 97, 114, 110, 105, 110, 103>>,
       <<97, 108, 103, 111, 114, 105, 116, 104, 109>> >>

\* the files main may find. hmm_model.pkl is missing, or a pickled dict that
\* holds 'letter_freq' (pkl_freq) or does not; data/corpus.txt is missing or
\* holds the first corpus_lines lines of CorpusFile; data/test.txt is
\* missing or holds the lines of WordFile
FileSystems ==
    {[pkl |-> k, pkl_freq |-> lf, corpus |-> c, corpus_lines |-> n, test |-> t] :
        k \in {"missing", "letter_freq", "no_letter_freq"},
        lf \in Tables,
        c \in BOOLEAN,
        n \in 0..Min(MaxCorpusWords, Len(CorpusFile)),
        t \in BOOLEAN}

\* the words of data/corpus.txt
CorpusWords(fs) == ReadWords(SubSeq(CorpusFile, 1, fs.corpus_lines))

InitLoad ==
    /\ files \in {fs \in FileSystems :
                    /\ fs.pkl # "letter_freq" => fs.pkl_freq = <<>>
                    /\ ~fs.corpus => fs.corpus_lines = 0}
    /\ letter_freq = <<>>
    /\ words = <<>>
    /\ pc = "load_hmm"
    /\ word = <<>>
    /\ guessed_letters = {}
    /\ wrong_guesses = 0
    /\ state = "IDLE"
    /\ guess = <<>>
    /\ output = "loading_model"
    /\ game_num = 0
    /\ num_games = 0
    /\ wins = 0
    /\ losses = 0
    /\ total_wrong = 0
    /\ hmm_wins = 0
    /\ random_wins = 0
    /\ alphabet = Letters

\* hmm = load_hmm(); if hmm is None: return
LoadHmm ==
    /\ pc = "load_hmm"
    /\ CASE files.pkl = "missing" ->
                /\ output' = "pkl_not_found"
                /\ pc' = "exit"
                /\ UNCHANGED letter_freq
         [] files.pkl = "letter_freq" ->
                /\ letter_freq' = files.pkl_freq
                /\ output' = "loading_words"
                /\ pc' = "load_words"
         [] files.pkl = "no_letter_freq" /\ files.corpus ->
                /\ letter_freq' = CountLetters(Range(CorpusWords(files)))
                /\ output' = "loading_words"
                /\ pc' = "load_words"
         [] files.pkl = "no_letter_freq" /\ ~files.corpus ->
                /\ output' = "FileNotFoundError"
                /\ pc' = "crashed"
                /\ UNCHANGED letter_freq
    /\ UNCHANGED <<files, words, round, guess, series, alphabet>>

\* words = load_words()
LoadWords ==
    /\ pc = "load_words"
    /\ words' = IF files.test THEN load_words
                ELSE IF files.corpus THEN CorpusWords(files)
                ELSE DefaultWords
    /\ output' = "loaded"
    /\ pc' = "menu"
    /\ UNCHANGED <<files, letter_freq, round, guess, series, alphabet>>

NextLoad ==
    \/ LoadHmm
    \/ LoadWords
    \/ MenuExit

SpecLoad == InitLoad /\ [][NextLoad]_vars

\* C13: no load step crashes on a missing file. Without hmm_model.pkl the
\* program reports it and exits; load_hmm and load_words otherwise reach the
\* menu, with the default words when both word files are missing.
C13_MissingFilesHandled ==
    /\ pc # "crashed"
    /\ (files.pkl = "missing" /\ pc # "load_hmm")
            => (pc = "exit" /\ output = "pkl_not_found")
    /\ (~files.test /\ ~files.corpus /\ pc = "menu") => words = DefaultWords

\* C14: predict_letter_probabilities divides by the sum of the 26 letters'
\* counts: when the table's total is > 0 the denominator of every letter's
\* probability is the sum of the 26 numerators (the probabilities sum to 1
\* before guessed letters are zeroed), and every guessed letter gets 0.
C14_ProbabilitiesSumToOne ==
    LET masked == Masked(word, guessed_letters)
        raw == predict_letter_probabilities(letter_freq, masked, {})
        probs == predict_letter_probabilities(letter_freq, masked,
                                              guessed_letters)
    IN  /\ SumOver(letter_freq, DOMAIN letter_freq) > 0 =>
              \A l \in LetterSet :
                  raw[l].den = SumOver([m \in LetterSet |-> raw[m].num],
                                       LetterSet)
        /\ \A g \in guessed_letters : probs[g].num = 0

\* a step that starts a round: a game of watch mode, or one of the two games
\* of a battle iteration
StartsRound ==
    \/ pc \in {"watch_for", "battle_for"} /\ game_num < num_games
    \/ pc = "battle_shuffle"

\* C15: every round starts fresh. The step that starts a game of watch mode,
\* or either game of a battle iteration, leaves guessed_letters empty and
\* wrong_guesses 0, whatever they were before.
C15_RoundsStartFresh ==
    [][StartsRound => (guessed_letters' = {} /\ wrong_guesses' = 0)]_vars

\* the second game of watch mode has started after a first game lost with
\* six wrong letters
C15_RoundsStartFresh_Witness ==
    /\ pc = "watch_while" /\ game_num = 1 /\ total_wrong = max_wrong
    /\ guessed_letters = {} /\ wrong_guesses = 0

\* C16: the random guesser follows one permutation of the 26 letters fixed
\* when its game starts. The shuffle leaves a permutation; every pass of its
\* loop keeps the permutation, finds a letter left, and guesses the k-th
\* letter of the permutation as its k-th guess, a letter not guessed before.
C16_RandomGuesserFollowsShuffle ==
    [][/\ (pc = "battle_shuffle") =>
            (Len(alphabet') = 26 /\ Range(alphabet') = LetterSet)
       /\ (pc = "battle_random") =>
            LET k == Cardinality(guessed_letters)
            IN  /\ pc' # "crashed"
                /\ k < 26
                /\ alphabet' = alphabet
                /\ guessed_letters = {alphabet[i] : i \in 1..k}
                /\ guess' = <<alphabet[k + 1]>>
                /\ alphabet[k + 1] \notin guessed_letters
                /\ guessed_letters' = guessed_letters \cup {alphabet[k + 1]}
      ]_vars

\* the random guesser has made three guesses, the first three letters of
\* its shuffle, on the word "cat"
C16_RandomGuesserFollowsShuffle_Witness ==
    /\ pc = "battle_random" /\ word = <<99, 97, 116>>
    /\ alphabet # Letters
    /\ guessed_letters = {alphabet[1], alphabet[2], alphabet[3]}
    /\ guess = <<alphabet[3]>>

\* C17: the predictor has no side effects and is deterministic. A call of
\* get_best_guess leaves the frequency table and the caller's guessed set as
\* they were, and with a letter left unguessed it returns the one letter
\* that the table and the guessed set determine.
C17_PredictorIsPure ==
    [][(pc = "predictor" /\ pc' # "predictor") =>
            LET best == get_best_guess(letter_freq,
                                       Masked(word, guessed_letters),
                                       guessed_letters)
            IN  /\ letter_freq' = letter_freq
                /\ guessed_letters' = guessed_letters
                /\ ~(LetterSet \subseteq guessed_letters) =>
                        /\ Cardinality(best) = 1
                        /\ pc' = "predicted"
                        /\ best = {guess'[1]}
      ]_vars

\* the call returned 'n' for the table of cat, car, can with a and c guessed
C17_PredictorIsPure_Witness ==
    /\ pc = "predicted" /\ letter_freq = CatCarCan
    /\ guessed_letters = {97, 99} /\ guess = <<110>>

\* C18: in every state of every mode, wrong_guesses is the number of guessed
\* letters that do not occur in the secret word, and lies in 0..6, so that
\* the index min(wrong_guesses, 6) of the gallows stage is wrong_guesses.
C18_WrongCountsMisses ==
    /\ wrong_guesses = Cardinality({g \in guessed_letters : g \notin Range(word)})
    /\ 0 <= wrong_guesses /\ wrong_guesses <= max_wrong
    /\ Min(wrong_guesses, 6) = wrong_guesses

\* a human round on "go" after g and the three misses x, y, z
C18_WrongCountsMisses_Witness ==
    /\ pc = "human" /\ word = <<103, 111>>
    /\ guessed_letters = {103, 120, 121, 122}
    /\ wrong_guesses = 3

\* the tally of watch mode after game_num games
WatchTally ==
    (pc \in {"watch_for", "watch_while"}) =>
        /\ wins + losses = game_num
        /\ 0 <= wins /\ wins <= game_num /\ game_num <= num_games
        /\ max_wrong * losses <= total_wrong
        /\ total_wrong <= max_wrong * losses + (max_wrong - 1) * wins
        /\ (pc = "watch_for" /\ game_num = num_games) =>
                (wins + losses = num_games /\ wins <= num_games)

\* C19: in watch mode every game that ends is reported once, as a win or as
\* a loss and never as both, so that wins plus reported losses is the number
\* of games played (num_games at the summary) and 0 <= wins <= num_games;
\* total_wrong grows by the game's final wrong_guesses, which is 6 for a
\* lost game.
C19_WatchTallyAddsUp ==
    [][/\ WatchTally'
       /\ (pc \in {"watch_for", "watch_while"} /\ game_num' = game_num + 1) =>
            /\ (wins' = wins + 1 /\ losses' = losses /\ output' = "ai_win"
                    /\ state' = "WON" /\ wrong_guesses' < max_wrong)
               \/ (wins' = wins /\ losses' = losses + 1 /\ output' = "ai_lost"
                    /\ state' = "LOST" /\ wrong_guesses' = max_wrong)
            /\ total_wrong' = total_wrong + wrong_guesses'
      ]_vars

\* both games of a series are over: one won after some misses, one lost
C19_WatchTallyAddsUp_Witness ==
    /\ pc = "watch_for" /\ game_num = 2 /\ num_games = 2
    /\ wins = 1 /\ losses = 1 /\ total_wrong > max_wrong

====
